---- MODULE Spec2Model ----
(***************************************************************************)
(* Seller Financing Calculator (src/src/App.jsx): the financial core, the  *)
(* share-link codec, the scenario store and the App component.             *)
(*                                                                         *)
(* The pure functions are called on bounded inputs (SpecSchedule, SpecTax, *)
(* SpecNpv, SpecShare); the component is run as a state machine of its     *)
(* mount effect and event handlers (SpecApp, SpecOpen, SpecStore).         *)
(*                                                                         *)
(* Strings are sequences of code points.  The localStorage item is kept as *)
(* the value its JSON text denotes, or as a text JSON.parse rejects.       *)
(*                                                                         *)
(* Numbers.  A JavaScript Number is modelled as an extended rational       *)
(* <<n, d>> in lowest terms with d >= 0:                                   *)
(*     d > 0            the real number n/d                                *)
(*     <<1, 0>>         Infinity                                           *)
(*     <<-1, 0>>        -Infinity                                          *)
(*     <<0, 0>>         NaN                                                *)
(* Arithmetic on finite values is exact (real) arithmetic, so an equality  *)
(* checked here is the equality the code satisfies up to IEEE-754 rounding;*)
(* division by zero, Infinity and NaN follow the IEEE rules the JavaScript *)
(* operators implement.  The sign of zero is not modelled (every zero is   *)
(* +0).                                                                    *)
(***************************************************************************)
EXTENDS Integers, Sequences, FiniteSets, TLC

\* a function of the program under call: where the call stands, its
\* arguments, its return value
VARIABLES pc, args, ret

\* the App component: the form's state (inputs), the memoised result
\* (derived), the Save Name field, the scenarios state, the number of user
\* actions so far; its environment: the localStorage item (storage), the
\* query string (search), the last exported CSV; and how the component
\* stands (status) with the handler whose exception went uncaught
VARIABLES inputs, derived, scenarioName, scenarios, steps, storage, search,
          csv, status, uncaught

callVars == <<pc, args, ret>>

appVars == <<inputs, derived, scenarioName, scenarios, steps, storage, search,
             csv, status, uncaught>>

vars == <<callVars, appVars>>

----------------------------------------------------------------------------
(* JavaScript Number arithmetic *)

Abs(i) == IF i < 0 THEN -i ELSE i

Sign(i) == IF i < 0 THEN -1 ELSE IF i > 0 THEN 1 ELSE 0

RECURSIVE Gcd(_, _)
Gcd(a, b) == IF b = 0 THEN a ELSE Gcd(b, a % b)

\* the Number n/d (d >= 0) in lowest terms; n/0 is +-Infinity or NaN
Norm(n, d) ==
  IF d = 0 THEN <<Sign(n), 0>>
  ELSE LET g == Gcd(Abs(n), d) IN <<n \div g, d \div g>>

Num(i) == <<i, 1>>

Zero == Num(0)

NaN == <<0, 0>>

IsNaN(a) == a = NaN

IsFinite(a) == a[2] > 0

IsInfinite(a) == a[2] = 0 /\ a[1] # 0

\* a + b (over the least common denominator)
Plus(a, b) ==
  IF IsInfinite(a) /\ IsInfinite(b) /\ a = b THEN a
  ELSE IF a[2] = 0 \/ b[2] = 0 THEN Norm(a[1] * b[2] + b[1] * a[2], 0)
  ELSE LET g == Gcd(a[2], b[2])
       IN  Norm(a[1] * (b[2] \div g) + b[1] * (a[2] \div g), a[2] * (b[2] \div g))

Neg(a) == <<-a[1], a[2]>>

\* a - b
Minus(a, b) == Plus(a, Neg(b))

\* a * b (cross-cancelled before multiplying)
Times(a, b) ==
  IF a[2] = 0 \/ b[2] = 0 THEN Norm(a[1] * b[1], a[2] * b[2])
  ELSE LET g1 == Gcd(Abs(a[1]), b[2])
           g2 == Gcd(Abs(b[1]), a[2])
       IN  Norm((a[1] \div g1) * (b[1] \div g2), (a[2] \div g2) * (b[2] \div g1))

\* 1 / b; 1/0 is Infinity
Recip(b) == IF b[1] < 0 THEN <<-b[2], -b[1]>> ELSE <<b[2], b[1]>>

\* a / b
Over(a, b) == Times(a, Recip(b))

\* a < b (false when either is NaN)
Less(a, b) ==
  IF IsNaN(a) \/ IsNaN(b) THEN FALSE
  ELSE IF IsInfinite(a) /\ IsInfinite(b) THEN a[1] < b[1]
  ELSE IF a[2] = 0 \/ b[2] = 0 THEN a[1] * b[2] < b[1] * a[2]
  ELSE LET g == Gcd(a[2], b[2])
       IN  a[1] * (b[2] \div g) < b[1] * (a[2] \div g)

\* a > b
Greater(a, b) == Less(b, a)

\* a <= b (false when either is NaN)
LessEq(a, b) == ~IsNaN(a) /\ ~IsNaN(b) /\ ~Less(b, a)

\* a === b
StrictEq(a, b) == ~IsNaN(a) /\ ~IsNaN(b) /\ a = b

\* Math.max(a, b)
MathMax(a, b) == IF IsNaN(a) \/ IsNaN(b) THEN NaN ELSE IF Less(a, b) THEN b ELSE a

\* Math.min(a, b)
MathMin(a, b) == IF IsNaN(a) \/ IsNaN(b) THEN NaN ELSE IF Less(b, a) THEN b ELSE a

\* Math.round(a): the nearest integer, halves rounded up
MathRound(a) == IF IsFinite(a) THEN Num((2 * a[1] + a[2]) \div (2 * a[2])) ELSE a

\* Math.pow(a, k) for an integer k >= 0
RECURSIVE PowNat(_, _)
PowNat(a, k) == IF k = 0 THEN Num(1) ELSE Times(a, PowNat(a, k - 1))

\* Math.pow(a, k) for an integer-valued Number k
MathPow(a, k) ==
  IF k[1] >= 0 THEN PowNat(a, k[1]) ELSE Recip(PowNat(a, -k[1]))

----------------------------------------------------------------------------
(* Helpers and amortization schedule *)

\* monthlyPaymentWithBalloon(P, rateAnnualPct, years, balloon)
monthlyPaymentWithBalloon(P, rateAnnualPct, years, balloon) ==
  LET r == Over(Over(rateAnnualPct, Num(100)), Num(12))
      n == MathRound(Times(years, Num(12)))
      pvBalloon == Over(balloon, MathPow(Plus(Num(1), r), n))
      effectivePV == Minus(P, pvBalloon)
  IN  IF StrictEq(r, Zero) THEN Over(Minus(P, balloon), n)
      ELSE Over(Times(effectivePV, r), Minus(Num(1), MathPow(Plus(Num(1), r), Neg(n))))

\* one amortization row; isBalloon is set on the synthetic balloon row only
Row(m, payment, interest, principal, balance, isBalloon) ==
  [month |-> m, payment |-> payment, interest |-> interest,
   principal |-> principal, balance |-> balance, isBalloon |-> isBalloon]

\* mutant: the balloon is not left outstanding at month n
balloonMonthPrincipalNoBalloon(bal, balloon) == MathMax(Zero, bal)

\* the principal of the month-n row when a balloon is set
balloonMonthPrincipal(bal, balloon) == MathMax(Zero, Minus(bal, balloon))

\* mutant: the balloon payoff row carries no principal and leaves the
\* balloon outstanding
balloonRowUnpaid(m, balloon) == Row(m, balloon, Zero, Zero, balloon, TRUE)

\* the synthetic balloon payoff row appended after the month-n row
balloonRow(m, balloon) == Row(m, balloon, Zero, balloon, Zero, TRUE)

\* the no-balloon final period: the residual balance adj is folded into
\* the period's principal
foldResidual(principalPay, adj) == Plus(principalPay, adj)

\* the balance a regular row reports
rowBalance(bal) == MathMax(Zero, bal)

\* the body of buildSchedule's loop from month m on: bal is the balance
\* outstanding and schedule the rows pushed so far
RECURSIVE ScheduleLoop(_, _, _, _, _, _, _)
ScheduleLoop(m, n, bal, schedule, pmt, r, balloon) ==
  IF ~(m <= n) THEN schedule
  ELSE
    LET interest == Times(bal, r)
        isLastBalloon == m = n /\ Greater(balloon, Zero)
        principalPay == IF isLastBalloon
                        THEN balloonMonthPrincipal(bal, balloon)
                        ELSE Minus(pmt, interest)
        bal1 == Minus(bal, principalPay)
    IN  IF isLastBalloon
        THEN schedule \o
             << Row(m, pmt, interest, principalPay, bal1, FALSE),
                balloonRow(m, balloon) >>
        ELSE IF m = n
        THEN Append(schedule,
                    Row(m, pmt, interest, foldResidual(principalPay, bal1),
                        rowBalance(Zero), FALSE))
        ELSE ScheduleLoop(m + 1, n, bal1,
                          Append(schedule,
                                 Row(m, pmt, interest, principalPay,
                                     rowBalance(bal1), FALSE)),
                          pmt, r, balloon)

\* buildSchedule({ principal, ratePct, termYears, balloon })
buildSchedule(principal, ratePct, termYears, balloon) ==
  LET n == MathRound(Times(termYears, Num(12)))
      pmt == monthlyPaymentWithBalloon(principal, ratePct, termYears, balloon)
      r == Over(Over(ratePct, Num(100)), Num(12))
  IN  [schedule |-> IF IsFinite(n)
                    THEN ScheduleLoop(1, n[1], principal, <<>>, pmt, r, balloon)
                    ELSE <<>>,
       payment |-> pmt]

----------------------------------------------------------------------------
(* Present value *)

\* mutant: every cash flow is discounted one period too many
discountFactorEndOfPeriod(r, month) == MathPow(Plus(Num(1), r), Num(month + 1))

\* Math.pow(1 + r, cf.month)
discountFactor(r, month) == MathPow(Plus(Num(1), r), Num(month))

RECURSIVE NpvReduce(_, _, _)
\* cashflows.reduce((acc, cf) => acc + cf.amount / Math.pow(1 + r, cf.month), acc)
NpvReduce(cashflows, r, acc) ==
  IF cashflows = <<>> THEN acc
  ELSE NpvReduce(Tail(cashflows), r,
                 Plus(acc, Over(cashflows[1].amount,
                                discountFactor(r, cashflows[1].month))))

\* npvMonthly(cashflows, discountAnnualPct)
npvMonthly(cashflows, discountAnnualPct) ==
  LET r == Over(Over(discountAnnualPct, Num(100)), Num(12))
  IN  NpvReduce(cashflows, r, Zero)

----------------------------------------------------------------------------
(* Tax modeling *)

\* mutant: a sale at a loss is not floored at zero gain
taxesAllCashNoFloor(price, sellingCosts, basis, recaptureAmt, recaptureRate, ltcgRate, stateGainRate) ==
  LET amountRealized == Minus(price, sellingCosts)
      gain == Minus(amountRealized, basis)
      recaptureTaxable == MathMin(recaptureAmt, gain)
      recaptureTax == Times(recaptureTaxable, Over(recaptureRate, Num(100)))
      remainingGain == Minus(gain, recaptureTaxable)
      capGainTax == Times(remainingGain, Over(Plus(ltcgRate, stateGainRate), Num(100)))
      totalTax == Plus(recaptureTax, capGainTax)
  IN  [amountRealized |-> amountRealized, gain |-> gain,
       recaptureTax |-> recaptureTax, capGainTax |-> capGainTax,
       totalTax |-> totalTax]

\* taxesAllCash({ price, sellingCosts, basis, recaptureAmt, recaptureRate,
\*                ltcgRate, stateGainRate })
taxesAllCash(price, sellingCosts, basis, recaptureAmt, recaptureRate, ltcgRate, stateGainRate) ==
  LET amountRealized == Minus(price, sellingCosts)
      gain == MathMax(Zero, Minus(amountRealized, basis))
      recaptureTaxable == MathMin(recaptureAmt, gain)
      recaptureTax == Times(recaptureTaxable, Over(recaptureRate, Num(100)))
      remainingGain == MathMax(Zero, Minus(gain, recaptureTaxable))
      capGainTax == Times(remainingGain, Over(Plus(ltcgRate, stateGainRate), Num(100)))
      totalTax == Plus(recaptureTax, capGainTax)
  IN  [amountRealized |-> amountRealized, gain |-> gain,
       recaptureTax |-> recaptureTax, capGainTax |-> capGainTax,
       totalTax |-> totalTax]

\* mutant: recapture is capped by the gross profit (the gain net of
\* recapture) instead of by the gain
installmentRecaptureTaxOfGrossProfit(amountRealized, basis, recaptureAmt, recaptureRate) ==
  Times(MathMin(recaptureAmt,
                MathMax(Zero, Minus(Minus(amountRealized, basis), recaptureAmt))),
        Over(recaptureRate, Num(100)))

\* the recapture tax buildInstallmentTaxes recognizes at month 0
installmentRecaptureTax(amountRealized, basis, recaptureAmt, recaptureRate) ==
  Times(MathMin(recaptureAmt, MathMax(Zero, Minus(amountRealized, basis))),
        Over(recaptureRate, Num(100)))

\* mutant: the capital-gain tax is copied into the recapture column
scheduleTaxRowRecaptureCopied(r, GPR, gainRatePct, ordRatePct) ==
  LET gainRecognized == Times(r.principal, GPR)
      capTax == Times(gainRecognized, Over(gainRatePct, Num(100)))
      intTax == Times(r.interest, Over(ordRatePct, Num(100)))
  IN  [month |-> r.month, capGainTax |-> capTax, interestTax |-> intTax,
       recaptureTax |-> capTax]

\* the tax row buildInstallmentTaxes pushes for amortization row r;
\* gainRatePct is ltcgRate + stateGainRate, ordRatePct is ordRate + stateOrdRate
scheduleTaxRow(r, GPR, gainRatePct, ordRatePct) ==
  LET gainRecognized == Times(r.principal, GPR)
      capTax == Times(gainRecognized, Over(gainRatePct, Num(100)))
      intTax == Times(r.interest, Over(ordRatePct, Num(100)))
  IN  [month |-> r.month, capGainTax |-> capTax, interestTax |-> intTax,
       recaptureTax |-> Zero]

RECURSIVE ReduceSum(_, _, _)
\* rows.reduce((a, r) => a + r[f], acc): the running total of field f
ReduceSum(rows, f, acc) ==
  IF rows = <<>> THEN acc ELSE ReduceSum(Tail(rows), f, Plus(acc, rows[1][f]))

\* buildInstallmentTaxes({ schedule, price, sellingCosts, basis, recaptureAmt,
\*   recaptureRate, ltcgRate, stateGainRate, ordRate, stateOrdRate })
buildInstallmentTaxes(schedule, price, sellingCosts, basis, recaptureAmt, recaptureRate, ltcgRate, stateGainRate, ordRate, stateOrdRate) ==
  LET amountRealized == Minus(price, sellingCosts)
      contractPrice == amountRealized
      grossProfit == MathMax(Zero, Minus(Minus(amountRealized, basis), recaptureAmt))
      GPR == IF Greater(contractPrice, Zero) THEN Over(grossProfit, contractPrice) ELSE Zero
      recaptureTax == installmentRecaptureTax(amountRealized, basis, recaptureAmt, recaptureRate)
      row0 == [month |-> 0, capGainTax |-> Zero, interestTax |-> Zero,
               recaptureTax |-> recaptureTax]
      taxRows == [i \in 1..Len(schedule) |->
                    scheduleTaxRow(schedule[i], GPR, Plus(ltcgRate, stateGainRate),
                                   Plus(ordRate, stateOrdRate))]
      totalCapGainTax == ReduceSum(taxRows, "capGainTax", Zero)
      totalInterestTax == ReduceSum(taxRows, "interestTax", Zero)
  IN  [rows |-> <<row0>> \o taxRows, GPR |-> GPR,
       totalCapGainTax |-> totalCapGainTax,
       totalInterestTax |-> totalInterestTax,
       recaptureTax |-> recaptureTax,
       totalTax |-> Plus(Plus(recaptureTax, totalCapGainTax), totalInterestTax)]

----------------------------------------------------------------------------
(* App.derived: the all-cash tax and the financing leg, from the inputs st *)

\* allCashTax of App.derived: taxesAllCash on the inputs
allCashTaxOf(st) ==
  taxesAllCash(st.purchasePrice, st.sellingCosts, st.basis, st.recaptureAmt,
               st.recaptureRate, st.ltcgRate, st.stateGainRate)

\* inst of App.derived: buildInstallmentTaxes on the inputs and a schedule
installmentTaxesOf(st, schedule) ==
  buildInstallmentTaxes(schedule, st.purchasePrice, st.sellingCosts, st.basis,
                        st.recaptureAmt, st.recaptureRate, st.ltcgRate,
                        st.stateGainRate, st.ordinaryRate, st.stateOrdRate)

\* downPayment, principal, schedule, pmt, totalPayments, totalInterest and
\* inst of App.derived, with allCashTax
derivedFinancing(st) ==
  LET downPayment == Times(Over(st.downPct, Num(100)), st.purchasePrice)
      principal == Minus(st.purchasePrice, downPayment)
      built == buildSchedule(principal, st.ratePct, st.termYears, st.balloon)
  IN  [allCashTax |-> allCashTaxOf(st),
       downPayment |-> downPayment,
       principal |-> principal,
       schedule |-> built.schedule,
       pmt |-> built.payment,
       totalPayments |-> ReduceSum(built.schedule, "payment", Zero),
       totalInterest |-> ReduceSum(built.schedule, "interest", Zero),
       inst |-> installmentTaxesOf(st, built.schedule)]

----------------------------------------------------------------------------
(* Share-link codec.  A string is the sequence of its code points; a       *)
(* JavaScript value is a record JVal: a number, a string, null, or a flat  *)
(* object (the ordered sequence of its key/value entries).                 *)

JNumber(a) == [type |-> "number", num |-> a, str |-> <<>>, entries |-> <<>>]

JString(cs) == [type |-> "string", num |-> Zero, str |-> cs, entries |-> <<>>]

JNull == [type |-> "null", num |-> Zero, str |-> <<>>, entries |-> <<>>]

JObject(es) == [type |-> "object", num |-> Zero, str |-> <<>>, entries |-> es]

\* the concatenation of a sequence of sequences
RECURSIVE FlattenRange(_, _, _)
FlattenRange(ss, i, j) ==
  IF i > j THEN <<>>
  ELSE IF i = j THEN ss[i]
  ELSE LET m == (i + j) \div 2
       IN  FlattenRange(ss, i, m) \o FlattenRange(ss, m + 1, j)

Flatten(ss) == FlattenRange(ss, 1, Len(ss))

\* the decimal digits of a natural number
RECURSIVE DigitsOf(_)
DigitsOf(i) == IF i < 10 THEN <<48 + i>> ELSE Append(DigitsOf(i \div 10), 48 + (i % 10))

\* the text "null"
NullText == <<110, 117, 108, 108>>

\* JSON.stringify of a Number: the shortest decimal text of a finite value
\* with at most two decimals; null for NaN and the infinities
NumberText(a) ==
  IF ~IsFinite(a) THEN NullText
  ELSE LET m == Abs(a[1])
           cents == ((m % a[2]) * 100) \div a[2]
           frac == IF cents = 0 THEN <<>>
                   ELSE IF cents % 10 = 0 THEN <<46, 48 + (cents \div 10)>>
                   ELSE <<46, 48 + (cents \div 10), 48 + (cents % 10)>>
       IN  (IF a[1] < 0 THEN <<45>> ELSE <<>>) \o DigitsOf(m \div a[2]) \o frac

\* the hexadecimal digit (lower case) of a value 0..15
HexDigit(v) == IF v < 10 THEN 48 + v ELSE 97 + (v - 10)

\* mutant of QuoteChar: no character is escaped
QuoteCharRaw(c) == <<c>>

\* JSON.stringify's escape of one character of a string
QuoteChar(c) ==
  IF c = 34 THEN <<92, 34>>
  ELSE IF c = 92 THEN <<92, 92>>
  ELSE IF c = 8 THEN <<92, 98>>
  ELSE IF c = 9 THEN <<92, 116>>
  ELSE IF c = 10 THEN <<92, 110>>
  ELSE IF c = 12 THEN <<92, 102>>
  ELSE IF c = 13 THEN <<92, 114>>
  ELSE IF c < 32 THEN <<92, 117, 48, 48, HexDigit(c \div 16), HexDigit(c % 16)>>
  ELSE <<c>>

\* JSON.stringify of a string
QuoteText(cs) == <<34>> \o Flatten([i \in 1..Len(cs) |-> QuoteChar(cs[i])]) \o <<34>>

\* JSON.stringify of a scalar value
ScalarText(v) ==
  IF v.type = "number" THEN NumberText(v.num)
  ELSE IF v.type = "string" THEN QuoteText(v.str)
  ELSE NullText

\* JSON.stringify(obj)
JSONStringify(v) ==
  IF v.type # "object" THEN ScalarText(v)
  ELSE <<123>>
       \o Flatten([i \in 1..Len(v.entries) |->
                     (IF i > 1 THEN <<44>> ELSE <<>>)
                     \o QuoteText(v.entries[i].key) \o <<58>>
                     \o ScalarText(v.entries[i].value)])
       \o <<125>>

\* the UTF-8 bytes of one code point
Utf8Char(c) ==
  IF c < 128 THEN <<c>>
  ELSE IF c < 2048 THEN <<192 + (c \div 64), 128 + (c % 64)>>
  ELSE IF c < 65536
  THEN <<224 + (c \div 4096), 128 + ((c \div 64) % 64), 128 + (c % 64)>>
  ELSE <<240 + (c \div 262144), 128 + ((c \div 4096) % 64),
         128 + ((c \div 64) % 64), 128 + (c % 64)>>

\* unescape(encodeURIComponent(s)): the UTF-8 bytes of s as a binary string
Utf8Encode(cs) == Flatten([i \in 1..Len(cs) |-> Utf8Char(cs[i])])

\* the base64 character of a sextet
B64Char(v) ==
  IF v < 26 THEN 65 + v
  ELSE IF v < 52 THEN 97 + (v - 26)
  ELSE IF v < 62 THEN 48 + (v - 52)
  ELSE IF v = 62 THEN 43 ELSE 47

\* btoa(bytes)
Btoa(b) ==
  LET n == Len(b)
      At(i) == IF i <= n THEN b[i] ELSE 0
  IN  [j \in 1..(4 * ((n + 2) \div 3)) |->
         LET g == (j - 1) \div 4
             k == (j - 1) % 4
             b1 == At(3 * g + 1)
             b2 == At(3 * g + 2)
             b3 == At(3 * g + 3)
         IN  IF k = 0 THEN B64Char(b1 \div 4)
             ELSE IF k = 1 THEN B64Char((b1 % 4) * 16 + (b2 \div 16))
             ELSE IF k = 2
             THEN (IF 3 * g + 2 > n THEN 61 ELSE B64Char((b2 % 16) * 4 + (b3 \div 64)))
             ELSE (IF 3 * g + 3 > n THEN 61 ELSE B64Char(b3 % 64))]

\* b64Encode(obj)
b64Encode(obj) == Btoa(Utf8Encode(JSONStringify(obj)))

\* the result of an operation that may throw
Thrown == [ok |-> FALSE, value |-> <<>>]

Ok(v) == [ok |-> TRUE, value |-> v]

\* the sextet of a base64 character, -1 for any other character
B64Value(c) ==
  IF c >= 65 /\ c <= 90 THEN c - 65
  ELSE IF c >= 97 /\ c <= 122 THEN c - 97 + 26
  ELSE IF c >= 48 /\ c <= 57 THEN c - 48 + 52
  ELSE IF c = 43 THEN 62
  ELSE IF c = 47 THEN 63
  ELSE -1

IsNotAsciiWhitespace(c) == c \notin {9, 10, 12, 13, 32}

\* atob(str): ASCII whitespace is removed, then padding; throws on a
\* character outside the alphabet and on a length of 1 mod 4
Atob(str) ==
  LET t == SelectSeq(str, IsNotAsciiWhitespace)
      n == Len(t)
      pad == IF n % 4 = 0 /\ n >= 2 /\ t[n] = 61
             THEN (IF t[n - 1] = 61 THEN 2 ELSE 1) ELSE 0
      m == n - pad
      val(i) == B64Value(t[i])
  IN  IF m % 4 = 1 \/ \E i \in 1..m : val(i) = -1 THEN Thrown
      ELSE Ok([j \in 1..((m * 6) \div 8) |->
                 LET g == (j - 1) \div 3
                     k == (j - 1) % 3
                 IN  IF k = 0 THEN val(4 * g + 1) * 4 + (val(4 * g + 2) \div 16)
                     ELSE IF k = 1
                     THEN (val(4 * g + 2) % 16) * 16 + (val(4 * g + 3) \div 4)
                     ELSE (val(4 * g + 3) % 4) * 64 + val(4 * g + 4)])

IsContinuation(b, i) == i <= Len(b) /\ b[i] >= 128 /\ b[i] < 192

\* the length of the UTF-8 sequence the byte c starts, 0 if it starts none
Utf8Length(c) ==
  IF c < 128 THEN 1
  ELSE IF c >= 194 /\ c < 224 THEN 2
  ELSE IF c >= 224 /\ c < 240 THEN 3
  ELSE IF c >= 240 /\ c < 245 THEN 4
  ELSE 0

\* the sequence starting at byte i is well formed
Utf8WellFormed(b, i) ==
  LET c == b[i]
      k == Utf8Length(c)
  IN  /\ k > 0
      /\ \A j \in 1..(k - 1) : IsContinuation(b, i + j)
      /\ ~IsContinuation(b, i + k)
      /\ (c = 224 => b[i + 1] >= 160) /\ (c = 237 => b[i + 1] < 160)
      /\ (c = 240 => b[i + 1] >= 144) /\ (c = 244 => b[i + 1] < 144)

\* the code point of the well-formed sequence starting at byte i
Utf8CodePoint(b, i) ==
  LET c == b[i] IN
  IF c < 128 THEN c
  ELSE IF c < 224 THEN (c - 192) * 64 + (b[i + 1] - 128)
  ELSE IF c < 240 THEN (c - 224) * 4096 + (b[i + 1] - 128) * 64 + (b[i + 2] - 128)
  ELSE (c - 240) * 262144 + (b[i + 1] - 128) * 4096
       + (b[i + 2] - 128) * 64 + (b[i + 3] - 128)

IsLeadAt(b, i) == ~IsContinuation(b, i)

\* decodeURIComponent(escape(bytes)): strict UTF-8 decoding, throws
\* (URIError) on a malformed sequence
Utf8Decode(b) ==
  LET IsLead(i) == IsLeadAt(b, i)
      leads == SelectSeq([i \in 1..Len(b) |-> i], IsLead)
  IN  IF (Len(b) > 0 /\ IsContinuation(b, 1))
         \/ \E k \in 1..Len(leads) : ~Utf8WellFormed(b, leads[k])
      THEN Thrown
      ELSE Ok([k \in 1..Len(leads) |-> Utf8CodePoint(b, leads[k])])

\* a parse step: failed, or a value and the position after it
NoParse == [ok |-> FALSE, value |-> JNull, next |-> 0]

Parsed(v, i) == [ok |-> TRUE, value |-> v, next |-> i]

IsDigit(c) == c >= 48 /\ c <= 57

HexValue(c) ==
  IF IsDigit(c) THEN c - 48
  ELSE IF c >= 97 /\ c <= 102 THEN c - 87
  ELSE IF c >= 65 /\ c <= 70 THEN c - 55
  ELSE -1

\* the character a short escape \x stands for, -1 if there is none
UnescapeChar(c) ==
  IF c \in {34, 92, 47} THEN c
  ELSE IF c = 98 THEN 8
  ELSE IF c = 116 THEN 9
  ELSE IF c = 110 THEN 10
  ELSE IF c = 102 THEN 12
  ELSE IF c = 114 THEN 13
  ELSE -1

\* JSON.parse of the characters of a string from position i (after the
\* opening quote) to the closing quote
RECURSIVE ParseStringBody(_, _, _)
ParseStringBody(t, i, acc) ==
  IF i > Len(t) THEN NoParse
  ELSE IF t[i] = 34 THEN Parsed(JString(acc), i + 1)
  ELSE IF t[i] < 32 THEN NoParse
  ELSE IF t[i] # 92 THEN ParseStringBody(t, i + 1, Append(acc, t[i]))
  ELSE IF i + 1 > Len(t) THEN NoParse
  ELSE IF t[i + 1] = 117
  THEN (IF i + 5 <= Len(t) /\ \A k \in 2..5 : HexValue(t[i + k]) >= 0
        THEN ParseStringBody(t, i + 6,
               Append(acc, HexValue(t[i + 2]) * 4096 + HexValue(t[i + 3]) * 256
                           + HexValue(t[i + 4]) * 16 + HexValue(t[i + 5])))
        ELSE NoParse)
  ELSE IF UnescapeChar(t[i + 1]) >= 0
  THEN ParseStringBody(t, i + 2, Append(acc, UnescapeChar(t[i + 1])))
  ELSE NoParse

\* the position after the run of digits starting at i
RECURSIVE DigitsEnd(_, _)
DigitsEnd(t, i) == IF i <= Len(t) /\ IsDigit(t[i]) THEN DigitsEnd(t, i + 1) ELSE i

\* the value of the digits t[i..j-1]
RECURSIVE DigitsValue(_, _, _)
DigitsValue(t, i, j) ==
  IF i >= j THEN 0 ELSE DigitsValue(t, i, j - 1) * 10 + (t[j - 1] - 48)

RECURSIVE PowTen(_)
PowTen(k) == IF k = 0 THEN 1 ELSE 10 * PowTen(k - 1)

\* JSON.parse of a number at position i: -? digits (. digits)?  (no
\* leading zeros; exponents are not modelled)
ParseNumber(t, i) ==
  LET neg == i <= Len(t) /\ t[i] = 45
      s == IF neg THEN i + 1 ELSE i
      e == DigitsEnd(t, s)
      hasFrac == e <= Len(t) /\ t[e] = 46
      f == IF hasFrac THEN DigitsEnd(t, e + 1) ELSE e
      scale == IF hasFrac THEN PowTen(f - (e + 1)) ELSE 1
      mag == Norm(DigitsValue(t, s, e) * scale
                  + (IF hasFrac THEN DigitsValue(t, e + 1, f) ELSE 0), scale)
  IN  IF e = s \/ (e - s > 1 /\ t[s] = 48) \/ (hasFrac /\ f = e + 1)
         \/ (f <= Len(t) /\ t[f] \in {101, 69})
      THEN NoParse
      ELSE Parsed(JNumber(IF neg THEN Neg(mag) ELSE mag), f)

\* JSON.parse of a scalar at position i
ParseScalar(t, i) ==
  IF i > Len(t) THEN NoParse
  ELSE IF t[i] = 34 THEN ParseStringBody(t, i + 1, <<>>)
  ELSE IF t[i] = 45 \/ IsDigit(t[i]) THEN ParseNumber(t, i)
  ELSE IF i + 3 <= Len(t) /\ SubSeq(t, i, i + 3) = NullText THEN Parsed(JNull, i + 4)
  ELSE NoParse

\* JSON.parse of the members of an object from position i (at a key) on
RECURSIVE ParseMembers(_, _, _)
ParseMembers(t, i, acc) ==
  IF i > Len(t) \/ t[i] # 34 THEN NoParse
  ELSE LET k == ParseStringBody(t, i + 1, <<>>) IN
    IF ~k.ok \/ k.next > Len(t) \/ t[k.next] # 58 THEN NoParse
    ELSE LET v == ParseScalar(t, k.next + 1) IN
      IF ~v.ok \/ v.next > Len(t) THEN NoParse
      ELSE LET es == Append(acc, [key |-> k.value.str, value |-> v.value]) IN
        IF t[v.next] = 125 THEN Parsed(JObject(es), v.next + 1)
        ELSE IF t[v.next] = 44 THEN ParseMembers(t, v.next + 1, es)
        ELSE NoParse

\* JSON.parse(s): a scalar or a flat object of scalars; throws (SyntaxError)
\* on anything else
JSONParse(t) ==
  LET r == IF Len(t) >= 2 /\ t[1] = 123
           THEN (IF t[2] = 125 THEN Parsed(JObject(<<>>), 3)
                 ELSE ParseMembers(t, 2, <<>>))
           ELSE ParseScalar(t, 1)
  IN  IF r.ok /\ r.next = Len(t) + 1 THEN Ok(r.value) ELSE Thrown

\* b64Decode(str, fallback)
b64Decode(str, fallback) ==
  LET bytes == Atob(str)
      s == IF bytes.ok THEN Utf8Decode(bytes.value) ELSE Thrown
      v == IF s.ok THEN JSONParse(s.value) ELSE Thrown
  IN  IF v.ok THEN v.value ELSE fallback

\* the characters (code points) of a field name
KeyText(k) ==
  CASE k = "brandName" -> <<98, 114, 97, 110, 100, 78, 97, 109, 101>>
    [] k = "logoUrl" -> <<108, 111, 103, 111, 85, 114, 108>>
    [] k = "purchasePrice" -> <<112, 117, 114, 99, 104, 97, 115, 101, 80, 114, 105, 99, 101>>
    [] k = "sellingCosts" -> <<115, 101, 108, 108, 105, 110, 103, 67, 111, 115, 116, 115>>
    [] k = "basis" -> <<98, 97, 115, 105, 115>>
    [] k = "ltcgRate" -> <<108, 116, 99, 103, 82, 97, 116, 101>>
    [] k = "stateGainRate" -> <<115, 116, 97, 116, 101, 71, 97, 105, 110, 82, 97, 116, 101>>
    [] k = "recaptureAmt" -> <<114, 101, 99, 97, 112, 116, 117, 114, 101, 65, 109, 116>>
    [] k = "recaptureRate" -> <<114, 101, 99, 97, 112, 116, 117, 114, 101, 82, 97, 116, 101>>
    [] k = "ordinaryRate" -> <<111, 114, 100, 105, 110, 97, 114, 121, 82, 97, 116, 101>>
    [] k = "stateOrdRate" -> <<115, 116, 97, 116, 101, 79, 114, 100, 82, 97, 116, 101>>
    [] k = "holdbackPct" -> <<104, 111, 108, 100, 98, 97, 99, 107, 80, 99, 116>>
    [] k = "holdbackYears" -> <<104, 111, 108, 100, 98, 97, 99, 107, 89, 101, 97, 114, 115>>
    [] k = "investRatePct" -> <<105, 110, 118, 101, 115, 116, 82, 97, 116, 101, 80, 99, 116>>
    [] k = "investYears" -> <<105, 110, 118, 101, 115, 116, 89, 101, 97, 114, 115>>
    [] k = "downPct" -> <<100, 111, 119, 110, 80, 99, 116>>
    [] k = "ratePct" -> <<114, 97, 116, 101, 80, 99, 116>>
    [] k = "termYears" -> <<116, 101, 114, 109, 89, 101, 97, 114, 115>>
    [] k = "balloon" -> <<98, 97, 108, 108, 111, 111, 110>>
    [] k = "discountRate" -> <<100, 105, 115, 99, 111, 117, 110, 116, 82, 97, 116, 101>>

\* currentState(): the fields of a share link or a saved scenario, in order
StateKeys ==
  <<"brandName", "logoUrl", "purchasePrice", "sellingCosts", "basis", "ltcgRate", "stateGainRate", "recaptureAmt", "recaptureRate", "ordinaryRate", "stateOrdRate", "holdbackPct", "holdbackYears", "investRatePct", "investYears", "downPct", "ratePct", "termYears", "balloon", "discountRate">>

TextKeys == {"brandName", "logoUrl"}

\* the object currentState() returns for the inputs st
currentState(st) ==
  JObject([i \in 1..Len(StateKeys) |->
             [key |-> KeyText(StateKeys[i]),
              value |-> IF StateKeys[i] \in TextKeys
                        THEN JString(st[StateKeys[i]])
                        ELSE JNumber(st[StateKeys[i]])]])

----------------------------------------------------------------------------
(* App.derived: the whole pipeline, and its memoisation *)

\* the record with the fields of both a and b
Merge(a, b) ==
  [f \in DOMAIN a \cup DOMAIN b |-> IF f \in DOMAIN a THEN a[f] ELSE b[f]]

\* the month of a cash flow dated x months; the months the model enters are
\* whole (hold-back periods are multiples of 1/12 year)
WholeMonth(x) == x[1] \div x[2]

\* for (let y = y0; y <= investYears; y++) cfAll.push({ month: y * 12, amount })
RECURSIVE interestFlows(_, _, _)
interestFlows(y, investYears, amount) ==
  IF LessEq(Num(y), investYears)
  THEN <<[month |-> y * 12, amount |-> amount]>>
       \o interestFlows(y + 1, investYears, amount)
  ELSE <<>>

\* the total tax of an installment-tax row
rowTax(r) == Plus(Plus(r.capGainTax, r.interestTax), r.recaptureTax)

\* the body of the callback of useMemo, fin being the all-cash tax and the
\* financing leg it computes from the inputs st
derivedBody(st, fin) ==
  LET holdback == Times(Over(st.holdbackPct, Num(100)), st.purchasePrice)
      netCashNow == Minus(st.purchasePrice, holdback)
      yearlyInterest == Times(netCashNow, Over(st.investRatePct, Num(100)))
      interestOnCash == Times(yearlyInterest, st.investYears)
      recoverHoldback == holdback
      allCashTax == fin.allCashTax
      sellerGetsAllCash ==
        Minus(Plus(Plus(netCashNow, interestOnCash), recoverHoldback),
              allCashTax.totalTax)
      cfAll == <<[month |-> 0, amount |-> Minus(netCashNow, allCashTax.totalTax)],
                 [month |-> WholeMonth(Times(Num(12), st.holdbackYears)),
                  amount |-> recoverHoldback]>>
               \o interestFlows(1, st.investYears, yearlyInterest)
      npvAllCash == npvMonthly(cfAll, st.discountRate)
      finFlows == <<[month |-> 0, amount |-> fin.downPayment]>>
                  \o [i \in 1..Len(fin.schedule) |->
                        [month |-> fin.schedule[i].month,
                         amount |-> fin.schedule[i].payment]]
                  \o [i \in 1..Len(fin.inst.rows) |->
                        [month |-> fin.inst.rows[i].month,
                         amount |-> Neg(rowTax(fin.inst.rows[i]))]]
      npvFin == npvMonthly(finFlows, st.discountRate)
      npvTaxesInst ==
        npvMonthly([i \in 1..Len(fin.inst.rows) |->
                      [month |-> fin.inst.rows[i].month,
                       amount |-> rowTax(fin.inst.rows[i])]], st.discountRate)
      taxAdvantage == Minus(allCashTax.totalTax, npvTaxesInst)
      totalValueToSeller == Plus(Plus(fin.downPayment, fin.totalPayments), taxAdvantage)
  IN  Merge(fin,
        [holdback |-> holdback, netCashNow |-> netCashNow,
         interestOnCash |-> interestOnCash, recoverHoldback |-> recoverHoldback,
         sellerGetsAllCash |-> sellerGetsAllCash,
         taxAdvantage |-> taxAdvantage, totalValueToSeller |-> totalValueToSeller,
         additionalValue |-> Minus(totalValueToSeller, sellerGetsAllCash),
         npvAllCash |-> npvAllCash, npvFin |-> npvFin,
         npvDelta |-> Minus(npvFin, npvAllCash)])

\* the callback of useMemo: every derived value, from the inputs st
derivedCallback(st) ==
  CHOOSE d \in {derivedBody(st, fin) : fin \in {derivedFinancing(st)}} : TRUE

\* the dependency list of useMemo
derivedDeps ==
  {"purchasePrice", "sellingCosts", "basis", "ltcgRate", "stateGainRate",
   "recaptureAmt", "recaptureRate", "ordinaryRate", "stateOrdRate",
   "holdbackPct", "investRatePct", "investYears", "holdbackYears", "downPct",
   "ratePct", "termYears", "balloon", "discountRate"}

\* mutant of depsChanged: holdbackYears is missing from the dependency list
depsChangedWithoutHoldbackYears(old, new) ==
  \E k \in derivedDeps \ {"holdbackYears"} : new[k] # old[k]

\* useMemo: a dependency differs from its value at the previous render
depsChanged(old, new) == \E k \in derivedDeps : new[k] # old[k]

\* the value of derived at the render that follows a state change from the
\* inputs old (with memoised value memo) to the inputs new
useMemo(old, new, memo) ==
  IF depsChanged(old, new) THEN derivedCallback(new) ELSE memo

----------------------------------------------------------------------------
(* Bounds of the model *)

MaxPrincipal == 4

MaxBalloon == 6

\* termYears ranges over 0/24, 1/24, ..., MaxTermUnits/24 years
MaxTermUnits == 6

\* annual rates in percent: monthly rates 0, 1/2 and 1
RatePcts == {0, 600, 1200}

\* the longest hand-made schedule and cash-flow sequence
MaxRows == 2

MaxFlows == 3

\* the latest month of a cash flow
MaxMonth == 2

\* the number of user actions on the mounted component
MaxSteps == 2

\* the number of user actions of a session of saves and deletes
MaxOps == 6

NoRet == [fn |-> "none"]

\* all sequences over S of length at most k
SeqsUpTo(S, k) == UNION {[1..j -> S] : j \in 0..k}

----------------------------------------------------------------------------
(* The App component: state setters, scenario store, handlers *)

\* the form's initial values (useState)
DefaultInputs ==
  [brandName |-> <<89, 111, 117, 114, 32, 70, 105, 114, 109, 32, 78, 97, 109, 101>>,
   logoUrl |-> <<>>,
   purchasePrice |-> Num(1500000), sellingCosts |-> Zero, basis |-> Num(700000),
   ltcgRate |-> Num(20), stateGainRate |-> Num(5),
   recaptureAmt |-> Zero, recaptureRate |-> Num(37),
   ordinaryRate |-> Num(37), stateOrdRate |-> Num(5),
   holdbackPct |-> Num(15), holdbackYears |-> Num(2),
   investRatePct |-> Num(20), investYears |-> Num(2),
   downPct |-> Num(10), ratePct |-> Num(6), termYears |-> Num(10),
   balloon |-> Zero, discountRate |-> Num(8)]

\* clamp(n, min)
clamp(n, min) == IF IsFinite(n) THEN MathMax(n, min) ELSE min

\* st[k] of a decoded value: null stands for undefined too (?? treats both
\* alike); the last of several entries with the same key wins
Prop(st, k) ==
  LET idx == {i \in 1..Len(st.entries) : st.entries[i].key = KeyText(k)}
  IN  IF st.type = "object" /\ idx # {}
      THEN st.entries[CHOOSE i \in idx : \A j \in idx : j <= i].value
      ELSE JNull

\* the value a setter receives from applyState: st[k] ?? fallback
\* (the objects the model loads hold a number under a numeric key and a
\* string under brandName and logoUrl)
Nullish(st, k, fallback) ==
  LET v == Prop(st, k)
  IN  IF v.type = "null" THEN fallback
      ELSE IF k \in TextKeys THEN v.str ELSE v.num

\* applyState(st): the inputs after the setters ran, cur being the inputs
\* of the render the function closes over
applyState(st, cur) ==
  [k \in DOMAIN cur |->
     Nullish(st, k, IF k = "logoUrl" THEN <<>>
                    ELSE IF k = "sellingCosts" THEN Zero
                    ELSE cur[k])]

\* if (st): the truthiness of a decoded value
Truthy(st) ==
  IF st.type = "object" THEN TRUE
  ELSE IF st.type = "number" THEN ~IsNaN(st.num) /\ st.num # Zero
  ELSE IF st.type = "string" THEN st.str # <<>>
  ELSE FALSE

\* the localStorage item: absent, a JSON text (the object it parses to, a
\* function from scenario names to entries), or a text JSON.parse rejects
NoItem == [kind |-> "absent", all |-> <<>>]

JsonItem(all) == [kind |-> "json", all |-> all]

CorruptItem == [kind |-> "corrupt", all |-> <<>>]

\* the object {}
EmptyObject == <<>>

\* JSON.parse(JSON.stringify(v)) of a stored value: NaN and the infinities
\* come back as null
JsonValue(v) ==
  IF v.type = "number" /\ ~IsFinite(v.num) THEN JNull
  ELSE IF v.type = "object"
  THEN JObject([i \in 1..Len(v.entries) |->
                  [key |-> v.entries[i].key,
                   value |-> IF v.entries[i].value.type = "number"
                                /\ ~IsFinite(v.entries[i].value.num)
                             THEN JNull ELSE v.entries[i].value]])
  ELSE v

\* JSON.parse(localStorage.getItem(LS_KEY) || "{}")
parseStore(item) ==
  IF item.kind = "corrupt" THEN Thrown
  ELSE IF item.kind = "absent" THEN Ok(EmptyObject)
  ELSE Ok(item.all)

\* loadScenarios()
loadScenarios(item) == parseStore(item)

\* the name __proto__
ProtoName == <<95, 95, 112, 114, 111, 116, 111, 95, 95>>

\* all[name] = entry on an object made by JSON.parse: an own property,
\* except under __proto__, where the assignment sets the prototype and
\* leaves the own properties alone
setProperty(all, name, entry) ==
  IF name = ProtoName THEN all
  ELSE [n \in DOMAIN all \cup {name} |-> IF n = name THEN entry ELSE all[n]]

\* delete all[name]
deleteProperty(all, name) == [n \in DOMAIN all \ {name} |-> all[n]]

\* localStorage.setItem(LS_KEY, JSON.stringify(all))
stringifyStore(all) ==
  JsonItem([n \in DOMAIN all |->
              [name |-> all[n].name, state |-> JsonValue(all[n].state),
               savedAt |-> all[n].savedAt]])

\* saveScenario(name, state) at time now: the new item, or the exception
saveScenario(item, name, state, now) ==
  LET all == parseStore(item)
  IN  IF ~all.ok THEN Thrown
      ELSE Ok(stringifyStore(setProperty(all.value, name,
                [name |-> name, state |-> state, savedAt |-> now])))

\* deleteScenario(name): the new item, or the exception
deleteScenario(item, name) ==
  LET all == loadScenarios(item)
  IN  IF ~all.ok THEN Thrown
      ELSE Ok(stringifyStore(deleteProperty(all.value, name)))

IsWhiteSpace(c) == c \in {9, 10, 11, 12, 13, 32, 160}

\* String.prototype.trim
RECURSIVE trim(_)
trim(cs) ==
  IF cs = <<>> THEN cs
  ELSE IF IsWhiteSpace(cs[1]) THEN trim(Tail(cs))
  ELSE IF IsWhiteSpace(cs[Len(cs)]) THEN trim(SubSeq(cs, 1, Len(cs) - 1))
  ELSE cs

\* x.toFixed(2), as the Number its text denotes: x rounded to cents, halves
\* away from zero
toFixed2(x) ==
  IF ~IsFinite(x) THEN x
  ELSE Norm(Sign(x[1]) * ((2 * Abs(x[1]) * 100 + x[2]) \div (2 * x[2])), 100)

\* derived.schedule.find((x) => x.month === r.month) for the tax row at
\* position i + 1 of inst.rows: the first row of that month, if any
findScheduleRow(schedule, i, month) ==
  LET idx == {j \in 1..Len(schedule) : schedule[j].month = month}
  IN  IF idx = {} THEN <<>>
      ELSE <<schedule[CHOOSE j \in idx : \A k \in idx : j <= k]>>

CsvHeader ==
  <<"Month", "Payment", "Interest", "Principal", "Balance", "CapGainTax",
    "InterestTax", "RecaptureTax">>

CsvRow(month, payment, interest, principal, balance, capGainTax, interestTax, recaptureTax) ==
  [month |-> month, payment |-> payment, interest |-> interest,
   principal |-> principal, balance |-> balance, capGainTax |-> capGainTax,
   interestTax |-> interestTax, recaptureTax |-> recaptureTax]

NoCsv == [header |-> <<>>, data |-> <<>>]

\* the rows exportScheduleCSV hands to downloadCSV, from derived d
exportScheduleCSV(d) ==
  LET taxRows == d.inst.rows
      line(i) ==
        LET r == taxRows[i]
            s == findScheduleRow(d.schedule, i - 1, r.month)
        IN  IF r.month = 0 \/ s = <<>> THEN <<>>
            ELSE <<CsvRow(r.month, toFixed2(s[1].payment), toFixed2(s[1].interest),
                          toFixed2(s[1].principal), toFixed2(s[1].balance),
                          toFixed2(r.capGainTax), toFixed2(r.interestTax), Zero)>>
      rec0 == {i \in 1..Len(taxRows) : taxRows[i].month = 0}
      r0 == taxRows[CHOOSE i \in rec0 : \A j \in rec0 : i <= j]
  IN  [header |-> CsvHeader,
       data |-> Flatten([i \in 1..Len(taxRows) |-> line(i)])
                \o (IF rec0 # {} /\ ~IsNaN(r0.recaptureTax) /\ r0.recaptureTax # Zero
                    THEN <<CsvRow(0, Zero, Zero, Zero, toFixed2(d.principal),
                                  Zero, Zero, toFixed2(r0.recaptureTax))>>
                    ELSE <<>>)]

\* no function is under call while the component runs
NoCall == pc = "idle" /\ args = NoRet /\ ret = NoRet

\* the component is not constructed while a function is under call
NoApp ==
  /\ inputs = DefaultInputs
  /\ derived = NoRet
  /\ scenarioName = <<>>
  /\ scenarios = EmptyObject
  /\ steps = 0
  /\ storage = NoItem
  /\ search = [present |-> FALSE, s |-> <<>>]
  /\ csv = NoCsv
  /\ status = "none"
  /\ uncaught = "none"

\* useEffect(() => {...}, []): the effect run once after the first render
Mount ==
  /\ status = "constructed"
  /\ \E st \in {IF search.present /\ search.s # <<>>
                 THEN b64Decode(search.s, JNull) ELSE JNull} :
     LET loaded == loadScenarios(storage)
     IN  /\ inputs' = IF Truthy(st) THEN applyState(st, inputs) ELSE inputs
         /\ derived' = useMemo(inputs, inputs', derived)
         /\ IF loaded.ok
            THEN scenarios' = loaded.value /\ status' = "mounted"
                 /\ UNCHANGED uncaught
            ELSE status' = "crashed" /\ uncaught' = "useEffect"
                 /\ UNCHANGED scenarios
  /\ UNCHANGED <<scenarioName, steps, storage, search, csv, callVars>>

\* NumberField onChange on a field k, typed[k] being the numbers typed into
\* it: set(clamp(e.target.value))
EditNumberIn(typed) ==
  /\ status = "mounted"
  /\ \E k \in DOMAIN typed : \E v \in typed[k] :
       /\ inputs' = [inputs EXCEPT ![k] = clamp(v, Zero)]
       /\ derived' = useMemo(inputs, inputs', derived)
  /\ steps' = steps + 1
  /\ UNCHANGED <<scenarioName, scenarios, storage, search, csv, status,
                 uncaught, callVars>>

\* TextField onChange on brandName or logoUrl: set(e.target.value)
EditTextIn(texts) ==
  /\ status = "mounted"
  /\ \E k \in TextKeys : \E v \in texts :
       /\ inputs' = [inputs EXCEPT ![k] = v]
       /\ derived' = useMemo(inputs, inputs', derived)
  /\ steps' = steps + 1
  /\ UNCHANGED <<scenarioName, scenarios, storage, search, csv, status,
                 uncaught, callVars>>

\* TextField onChange on Save Name: setScenarioName(e.target.value)
TypeScenarioNameIn(texts) ==
  /\ status = "mounted"
  /\ \E v \in texts : scenarioName' = v
  /\ steps' = steps + 1
  /\ UNCHANGED <<inputs, derived, scenarios, storage, search, csv, status,
                 uncaught, callVars>>

\* handleSave(); the time of the save is the number of the user action
HandleSave ==
  /\ status = "mounted"
  /\ steps' = steps + 1
  /\ LET name == trim(scenarioName)
         saved == saveScenario(storage, name, currentState(inputs), steps + 1)
     IN  IF name = <<>>
         THEN UNCHANGED <<scenarioName, scenarios, storage, uncaught>>
         ELSE IF ~saved.ok
         THEN uncaught' = "handleSave" /\ UNCHANGED <<scenarioName, scenarios, storage>>
         ELSE /\ storage' = saved.value
              /\ scenarios' = loadScenarios(saved.value).value
              /\ scenarioName' = <<>>
              /\ UNCHANGED uncaught
  /\ UNCHANGED <<inputs, derived, search, csv, status, callVars>>

\* Delete button of a listed scenario: deleteScenario(name);
\* setScenarios(loadScenarios())
DeleteClick ==
  /\ status = "mounted"
  /\ steps' = steps + 1
  /\ \E name \in DOMAIN scenarios :
       LET deleted == deleteScenario(storage, name)
       IN  IF ~deleted.ok
           THEN uncaught' = "deleteClick" /\ UNCHANGED <<scenarios, storage>>
           ELSE /\ storage' = deleted.value
                /\ scenarios' = loadScenarios(deleted.value).value
                /\ UNCHANGED uncaught
  /\ UNCHANGED <<inputs, derived, scenarioName, search, csv, status, callVars>>

\* handleLoad(name) from the button of a listed scenario
HandleLoad ==
  /\ status = "mounted"
  /\ steps' = steps + 1
  /\ \E name \in DOMAIN scenarios :
       /\ inputs' = IF Truthy(scenarios[name].state)
                    THEN applyState(scenarios[name].state, inputs) ELSE inputs
       /\ derived' = useMemo(inputs, inputs', derived)
  /\ UNCHANGED <<scenarioName, scenarios, storage, search, csv, status,
                 uncaught, callVars>>

\* the Export CSV button
ExportCsvClick ==
  /\ status = "mounted"
  /\ steps' = steps + 1
  /\ csv' = exportScheduleCSV(derived)
  /\ UNCHANGED <<inputs, derived, scenarioName, scenarios, storage, search,
                 status, uncaught, callVars>>

----------------------------------------------------------------------------
(* buildSchedule called on every input of the bounded domain *)

ScheduleArgs ==
  [fn : {"buildSchedule"},
   principal : {Num(i) : i \in 0..MaxPrincipal},
   ratePct : {Num(i) : i \in RatePcts},
   termYears : {Norm(k, 24) : k \in 0..MaxTermUnits},
   balloon : {Num(i) : i \in 0..MaxBalloon}]

InitSchedule == pc = "call" /\ args \in ScheduleArgs /\ ret = NoRet /\ NoApp

CallBuildSchedule ==
  /\ pc = "call"
  /\ args.fn = "buildSchedule"
  /\ ret' = buildSchedule(args.principal, args.ratePct, args.termYears, args.balloon)
  /\ pc' = "return"
  /\ UNCHANGED <<args, appVars>>

NextSchedule == CallBuildSchedule

SpecSchedule == InitSchedule /\ [][NextSchedule]_vars

----------------------------------------------------------------------------
(* The tax functions called on every input of the bounded domain: through  *)
(* App.derived (fn = "derived", the schedule built from the financing      *)
(* terms) and directly on a hand-made schedule (fn = "taxes")              *)

\* the deal of the documented example: the form's default tax inputs
ExampleDeal ==
  [purchasePrice |-> Num(1500000), sellingCosts |-> Zero, basis |-> Num(700000),
   recaptureAmt |-> Zero, recaptureRate |-> Num(37), ltcgRate |-> Num(20),
   stateGainRate |-> Num(5), ordinaryRate |-> Num(37), stateOrdRate |-> Num(5)]

SmallDeals ==
  [purchasePrice : {Num(0), Num(2), Num(4)},
   sellingCosts : {Num(0), Num(1)},
   basis : {Num(0), Num(1), Num(3)},
   recaptureAmt : {Num(0), Num(1), Num(5)},
   recaptureRate : {Num(0), Num(37)},
   ltcgRate : {Num(20)},
   stateGainRate : {Num(0), Num(5)},
   ordinaryRate : {Num(37)},
   stateOrdRate : {Num(5)}]

Deals == SmallDeals \cup {ExampleDeal}

FinancingTerms ==
  [downPct : {Num(0), Num(10)},
   ratePct : {Num(0), Num(1200)},
   termYears : {Norm(k, 24) : k \in 0..MaxTermUnits},
   balloon : {Num(0), Num(1)}]

\* hand-made amortization rows: month = position, payment = interest + principal
HandRows ==
  {[interest |-> Num(i), principal |-> Num(q)] : i \in {0, 1}, q \in {0, 2}}

HandSchedule(rows) ==
  [i \in 1..Len(rows) |->
     Row(i, Plus(rows[i].interest, rows[i].principal), rows[i].interest,
         rows[i].principal, Zero, FALSE)]

InitTax ==
  /\ NoApp
  /\ pc = "call"
  /\ ret = NoRet
  /\ \E deal \in Deals :
       \/ \E fin \in FinancingTerms :
            args = Merge([fn |-> "derived"], Merge(deal, fin))
       \/ \E rows \in SeqsUpTo(HandRows, MaxRows) :
            args = Merge([fn |-> "taxes", schedule |-> HandSchedule(rows)], deal)

\* App.derived recomputed from the inputs
Recompute ==
  /\ pc = "call"
  /\ args.fn = "derived"
  /\ ret' = derivedFinancing(args)
  /\ pc' = "return"
  /\ UNCHANGED <<args, appVars>>

\* taxesAllCash and buildInstallmentTaxes called on a given schedule
CallTaxes ==
  /\ pc = "call"
  /\ args.fn = "taxes"
  /\ ret' = [allCashTax |-> allCashTaxOf(args),
             schedule |-> args.schedule,
             inst |-> installmentTaxesOf(args, args.schedule)]
  /\ pc' = "return"
  /\ UNCHANGED <<args, appVars>>

NextTax == Recompute \/ CallTaxes

SpecTax == InitTax /\ [][NextTax]_vars

----------------------------------------------------------------------------
(* npvMonthly called on every input of the bounded domain *)

CashFlows == [month : 0..MaxMonth, amount : {Num(-1), Num(2)}]

\* annual discount rates in percent: monthly rates -1/2, 0, 1/2 and 1
DiscountPcts == {-600, 0, 600, 1200}

InitNpv ==
  /\ NoApp
  /\ pc = "call"
  /\ ret = NoRet
  /\ args \in [fn : {"npvMonthly"},
               cashflows : SeqsUpTo(CashFlows, MaxFlows),
               discountAnnualPct : {Num(i) : i \in DiscountPcts}]

CallNpvMonthly ==
  /\ pc = "call"
  /\ args.fn = "npvMonthly"
  /\ ret' = [npv |-> npvMonthly(args.cashflows, args.discountAnnualPct)]
  /\ pc' = "return"
  /\ UNCHANGED <<args, appVars>>

NextNpv == CallNpvMonthly

SpecNpv == InitNpv /\ [][NextNpv]_vars

----------------------------------------------------------------------------
(* b64Encode and b64Decode called on the objects currentState() builds *)

\* brand names: the default, the empty one, e-acute " \ , e-acute and tilde,
\* a line break and a tab, the euro sign, an emoji
BrandNames ==
  {DefaultInputs.brandName, <<>>, <<233, 34, 92>>, <<233, 126>>, <<10, 9, 1>>,
   <<8364>>, <<128512, 47>>}

\* logo URLs: none, https://x.y/a?b=~
LogoUrls == {<<>>, <<104, 116, 116, 112, 115, 58, 47, 47, 120, 46, 121, 47, 97, 63, 98, 61, 126>>}

\* the inputs whose share link is round-tripped
ShareInputs ==
  {[DefaultInputs EXCEPT !.brandName = b, !.logoUrl = l, !.purchasePrice = p,
                         !.termYears = t, !.balloon = q]
     : b \in BrandNames, l \in LogoUrls,
       p \in {Num(1500000), Zero}, t \in {Num(10), Norm(1, 4)},
       q \in {Zero, Norm(250001, 100)}}

InitShare ==
  /\ NoApp
  /\ pc = "call"
  /\ ret = NoRet
  /\ \E st \in ShareInputs : args = [fn |-> "b64Encode", obj |-> currentState(st)]

\* copyShareLink: code = b64Encode(currentState())
CallB64Encode ==
  /\ pc = "call"
  /\ args.fn = "b64Encode"
  /\ ret' = [code |-> b64Encode(args.obj)]
  /\ pc' = "encoded"
  /\ UNCHANGED <<args, appVars>>

\* the link is opened: st = b64Decode(s, null)
CallB64Decode ==
  /\ pc = "encoded"
  /\ ret' = [code |-> ret.code, st |-> b64Decode(ret.code, JNull)]
  /\ pc' = "return"
  /\ UNCHANGED <<args, appVars>>

NextShare == CallB64Encode \/ CallB64Decode

SpecShare == InitShare /\ [][NextShare]_vars

----------------------------------------------------------------------------
(* The App component opened on a link and a stored item, then edited *)

\* the inputs of the first render: the form's initial values with the
\* amounts, the terms and the rates brought down to numbers whose schedule
\* and present values stay within the model's integers
FirstInputs ==
  [DefaultInputs EXCEPT
     !.purchasePrice = Num(4), !.basis = Num(1),
     !.holdbackYears = Norm(1, 2), !.investYears = Num(1),
     !.ratePct = Zero, !.termYears = Norm(1, 6), !.discountRate = Zero]

\* the numbers typed into each number field
TypedNumbers ==
  [k \in derivedDeps |->
     CASE k = "purchasePrice" -> {Num(2), Num(-3)}
       [] k = "sellingCosts" -> {Num(1)}
       [] k = "basis" -> {Num(3)}
       [] k = "ltcgRate" -> {Num(15)}
       [] k = "stateGainRate" -> {Zero}
       [] k = "recaptureAmt" -> {Num(1)}
       [] k = "recaptureRate" -> {Num(25)}
       [] k = "ordinaryRate" -> {Num(24)}
       [] k = "stateOrdRate" -> {Zero}
       [] k = "holdbackPct" -> {Num(50)}
       [] k = "holdbackYears" -> {Num(1)}
       [] k = "investRatePct" -> {Num(10)}
       [] k = "investYears" -> {Norm(3, 2), Norm(1, 2)}
       [] k = "downPct" -> {Num(150)}
       [] k = "ratePct" -> {Num(1200)}
       [] k = "termYears" -> {Norm(1, 4)}
       [] k = "balloon" -> {Num(1)}
       [] k = "discountRate" -> {Num(1200)}]

\* the texts typed into a text field: Z
TypedTexts == {<<90>>}

\* an object of a share link or of a stored scenario
ObjectOf(fields) ==
  JObject([i \in 1..Len(fields) |->
             [key |-> KeyText(fields[i][1]), value |-> fields[i][2]]])

\* the objects share links are made of: one field below zero; a partial
\* object; the number 7; the state of an edited form
LinkValues ==
  {ObjectOf(<<<<"purchasePrice", JNumber(Num(-5))>>>>),
   ObjectOf(<<<<"investYears", JNumber(Norm(3, 2))>>, <<"brandName", JString(<<90>>)>>,
              <<"sellingCosts", JNumber(Num(1))>>>>),
   JNumber(Num(7)),
   currentState([FirstInputs EXCEPT !.balloon = Num(1), !.discountRate = Num(1200)])}

\* texts that are no share link: %%% (not base64), the base64 of {bad (not
\* JSON), the base64 of the byte FF (not UTF-8)
BrokenLinks == {<<37, 37, 37>>, Btoa(<<123, 98, 97, 100>>), Btoa(<<255>>)}

\* the values of the query parameter s
Searches ==
  {[present |-> FALSE, s |-> <<>>]}
  \cup {[present |-> TRUE, s |-> b64Encode(v)] : v \in LinkValues}
  \cup {[present |-> TRUE, s |-> c] : c \in BrokenLinks \cup {<<>>}}

\* a stored scenario A: the state saved from an edited form
StoredScenarios ==
  [n \in {<<65>>} |->
     [name |-> n,
      state |-> currentState([FirstInputs EXCEPT !.downPct = Num(150),
                                                 !.investYears = Norm(3, 2)]),
      savedAt |-> 0]]

\* the localStorage items the component is opened on
StoredItems == {NoItem, CorruptItem, JsonItem(StoredScenarios)}

\* the component before its effect ran, on the stored item and the query
\* parameter given
Constructed(item, query) ==
  /\ NoCall
  /\ inputs = FirstInputs
  /\ derived = derivedCallback(FirstInputs)
  /\ scenarioName = <<>>
  /\ scenarios = EmptyObject
  /\ steps = 0
  /\ storage = item
  /\ search = query
  /\ csv = NoCsv
  /\ status = "constructed"
  /\ uncaught = "none"

\* opened without a link or on the link of a partial object, on a store
\* holding scenario A
InitApp ==
  \E query \in Searches :
    /\ ~query.present \/ query.s = b64Encode(ObjectOf(<<
          <<"investYears", JNumber(Norm(3, 2))>>, <<"brandName", JString(<<90>>)>>,
          <<"sellingCosts", JNumber(Num(1))>>>>))
    /\ Constructed(JsonItem(StoredScenarios), query)

EditNumber == steps < MaxSteps /\ EditNumberIn(TypedNumbers)

EditText == steps < MaxSteps /\ EditTextIn(TypedTexts)

LoadClick == steps < MaxSteps /\ HandleLoad

ExportClick == steps < MaxSteps /\ ExportCsvClick

NextApp == Mount \/ EditNumber \/ EditText \/ LoadClick \/ ExportClick

SpecApp == InitApp /\ [][NextApp]_vars

----------------------------------------------------------------------------
(* The App component opened on every link and stored item of the model *)

InitOpen == \E item \in StoredItems : \E query \in Searches : Constructed(item, query)

\* the numbers typed after the page is open
TypedAfterOpen ==
  [k \in {"purchasePrice", "downPct"} |->
     IF k = "purchasePrice" THEN {Num(-3)} ELSE {Num(150), Num(50)}]

EditAmount == steps < MaxSteps /\ EditNumberIn(TypedAfterOpen)

NextOpen == Mount \/ EditAmount \/ LoadClick

SpecOpen == InitOpen /\ [][NextOpen]_vars

----------------------------------------------------------------------------
(* The App component used to save, load and delete scenarios *)

\* the texts typed into Save Name: A, A between blanks, B, a blank,
\* __proto__
TypedNames == {<<65>>, <<32, 65, 32>>, <<66>>, <<32>>, ProtoName}

\* the purchase prices typed between saves
TypedPrices == [k \in {"purchasePrice"} |-> {Num(2), Num(4)}]

\* opened without a link on a browser that holds no item yet
InitStore == Constructed(NoItem, [present |-> FALSE, s |-> <<>>])

TypeName == steps < MaxOps /\ TypeScenarioNameIn(TypedNames)

SaveClick == steps < MaxOps /\ HandleSave

DeleteScenarioClick == steps < MaxOps /\ DeleteClick

LoadScenarioClick == steps < MaxOps /\ HandleLoad

EditPrice == steps < MaxOps /\ EditNumberIn(TypedPrices)

NextStore ==
  Mount \/ TypeName \/ SaveClick \/ DeleteScenarioClick \/ LoadScenarioClick
  \/ EditPrice

SpecStore == InitStore /\ [][NextStore]_vars

----------------------------------------------------------------------------
(* Claims about buildSchedule (checked under SpecSchedule) *)

Returned == pc = "return"

\* n = round(12 * termYears), the number of monthly periods
Months == MathRound(Times(args.termYears, Num(12)))[1]

RECURSIVE SumField(_, _)
\* the sum of field f over the rows of a sequence
SumField(rows, f) ==
  IF rows = <<>> THEN Zero ELSE Plus(rows[1][f], SumField(Tail(rows), f))

Last(rows) == rows[Len(rows)]

BalloonInRange == LessEq(Zero, args.balloon) /\ LessEq(args.balloon, args.principal)

\* C1: for principal >= 0, rate >= 0, n >= 1 months and 0 <= balloon <=
\* principal, the last row of the schedule has balance exactly 0 and the
\* principal fields of all rows sum to the original principal.
C1_ScheduleAmortizesPrincipal ==
  (Returned /\ Months >= 1 /\ BalloonInRange) =>
    /\ Len(ret.schedule) >= 1
    /\ Last(ret.schedule).balance = Zero
    /\ SumField(ret.schedule, "principal") = args.principal

\* C1 witness: a three-month loan at a positive rate with a balloon strictly
\* between 0 and the principal has been scheduled.
C1_Witness ==
  /\ Returned /\ Months = 3
  /\ Greater(args.ratePct, Zero)
  /\ Greater(args.balloon, Zero) /\ Less(args.balloon, args.principal)
  /\ Len(ret.schedule) = 4
  /\ SumField(ret.schedule, "principal") = args.principal

\* C3: when termYears rounds to zero months, buildSchedule returns an empty
\* schedule and a finite payment (never NaN or Infinity).
C3_ZeroMonthsPaymentDefined ==
  (Returned /\ Months = 0) =>
    (ret.schedule = <<>> /\ IsFinite(ret.payment))

\* C5 as stated: for 0 <= balloon <= principal and n >= 1, the principal
\* fields of the final two rows sum to the original principal and the last
\* row is the synthetic balloon row with interest 0.
C5_FinalTwoRowsSumToPrincipal ==
  (Returned /\ Months >= 1 /\ BalloonInRange) =>
    LET s == ret.schedule IN
      /\ Len(s) >= 2
      /\ Last(s).isBalloon /\ Last(s).interest = Zero
      /\ Plus(s[Len(s) - 1].principal, Last(s).principal) = args.principal

\* the balance outstanding before month n: the original principal when
\* n = 1, else the balance reported by the month n-1 row
BalanceBeforeLastMonth ==
  IF Months = 1 THEN args.principal ELSE ret.schedule[Months - 1].balance

\* C5 amended: for 0 < balloon <= principal and n >= 1, the schedule ends
\* with the month-n regular row followed by the synthetic balloon row; their
\* principal fields sum to the balance outstanding before month n (the
\* original principal when n = 1), and the synthetic balloon row has
\* interest 0 and the balloon as its principal.
C5_PayoffPairClearsOutstanding ==
  (Returned /\ Months >= 1 /\ BalloonInRange /\ Greater(args.balloon, Zero)) =>
    LET s == ret.schedule IN
      /\ Len(s) = Months + 1
      /\ ~s[Len(s) - 1].isBalloon /\ s[Len(s) - 1].month = Months
      /\ Last(s).isBalloon /\ Last(s).month = Months
      /\ Last(s).interest = Zero /\ Last(s).principal = args.balloon
      /\ Plus(s[Len(s) - 1].principal, Last(s).principal) = BalanceBeforeLastMonth

\* C5 witness: a balloon loan of two months or more whose payoff pair sums
\* to less than the original principal.
C5_Witness ==
  /\ Returned /\ Months >= 2 /\ BalloonInRange /\ Greater(args.balloon, Zero)
  /\ Len(ret.schedule) = Months + 1
  /\ Less(Plus(ret.schedule[Months].principal, Last(ret.schedule).principal),
          args.principal)

\* C6: for principal >= 0, rate >= 0, termYears > 0 and any balloon >= 0,
\* the balance never increases from one row to the next, is never negative
\* and is exactly 0 in the final row.
C6_BalanceMonotoneToZero ==
  (Returned /\ Greater(args.termYears, Zero) /\ Months >= 1) =>
    LET s == ret.schedule IN
      /\ \A i \in 1..Len(s) : LessEq(Zero, s[i].balance)
      /\ \A i \in 1..(Len(s) - 1) : LessEq(s[i + 1].balance, s[i].balance)
      /\ Len(s) >= 1 /\ Last(s).balance = Zero

\* C7: every row that is not the synthetic balloon row satisfies
\* interest + principal = payment.
C7_RowsSplitPayment ==
  Returned =>
    \A i \in 1..Len(ret.schedule) :
      LET row == ret.schedule[i] IN
        ~row.isBalloon => Plus(row.interest, row.principal) = row.payment

----------------------------------------------------------------------------
(* Claims about the tax functions (checked under SpecTax) *)

RatePart(pct) == Over(pct, Num(100))

\* price - sellingCosts - basis, not floored
RawGain == Minus(Minus(args.purchasePrice, args.sellingCosts), args.basis)

\* max(0, price - sellingCosts - basis)
ExpectedGain == IF Less(RawGain, Zero) THEN Zero ELSE RawGain

\* min(recaptureAmount, gain)
ExpectedRecaptureTaxable ==
  IF Less(args.recaptureAmt, ExpectedGain) THEN args.recaptureAmt ELSE ExpectedGain

\* max(0, price - sellingCosts - basis - recaptureAmount)
ExpectedGrossProfit ==
  LET g == Minus(RawGain, args.recaptureAmt) IN IF Less(g, Zero) THEN Zero ELSE g

GainRatePart == RatePart(Plus(args.ltcgRate, args.stateGainRate))

IsExampleDeal == \A f \in DOMAIN ExampleDeal : args[f] = ExampleDeal[f]

\* C2: for a zero-balloon loan, the capital-gains tax summed over all rows
\* returned by buildInstallmentTaxes equals
\* grossProfit * (ltcgRate + stateGainRate)/100, for the schedule the
\* application builds from the financed principal and for a schedule passed
\* in directly.
C2_InstallmentTaxRecognizesGrossProfit ==
  (Returned /\ (args.fn = "derived" => (args.balloon = Zero /\ Months >= 1))) =>
    SumField(ret.inst.rows, "capGainTax") = Times(ExpectedGrossProfit, GainRatePart)

\* C4: taxesAllCash returns gain = max(0, price - sellingCosts - basis),
\* recaptureTax = min(recaptureAmount, gain) * recaptureRate/100,
\* capGainTax = (gain - min(recaptureAmount, gain)) * (ltcgRate +
\* stateGainRate)/100 and totalTax = recaptureTax + capGainTax; no tax is
\* negative, a sale at a loss has totalTax 0, and the documented example
\* gives gain 800,000 and totalTax 200,000.
C4_TaxesAllCashFormulas ==
  Returned =>
    LET t == ret.allCashTax IN
      /\ t.gain = ExpectedGain
      /\ t.recaptureTax = Times(ExpectedRecaptureTaxable, RatePart(args.recaptureRate))
      /\ t.capGainTax = Times(Minus(ExpectedGain, ExpectedRecaptureTaxable), GainRatePart)
      /\ t.totalTax = Plus(t.recaptureTax, t.capGainTax)
      /\ LessEq(Zero, t.recaptureTax) /\ LessEq(Zero, t.capGainTax)
      /\ LessEq(Zero, t.totalTax)
      /\ (LessEq(RawGain, Zero) => t.totalTax = Zero)
      /\ (IsExampleDeal =>
            /\ t.gain = Num(800000) /\ t.recaptureTax = Zero
            /\ t.capGainTax = Num(200000) /\ t.totalTax = Num(200000))

\* C4 witness: the documented example has been computed.
C4_Witness ==
  Returned /\ IsExampleDeal /\ ret.allCashTax.totalTax = Num(200000)

\* C4 witness of the loss case (a sale below basis, recapture claimed).
C4_WitnessLoss ==
  /\ Returned /\ Less(RawGain, Zero) /\ Greater(args.recaptureAmt, Zero)
  /\ ret.allCashTax.totalTax = Zero

\* C8: the recaptureTax returned by buildInstallmentTaxes (and carried by
\* its month-0 row) equals the recaptureTax returned by taxesAllCash on the
\* same inputs, for every schedule.
C8_RecaptureTaxAgrees ==
  Returned =>
    /\ ret.inst.recaptureTax = ret.allCashTax.recaptureTax
    /\ ret.inst.rows[1].recaptureTax = ret.allCashTax.recaptureTax

\* C8 witness: recapture exceeds the gain, so the cap binds, the recapture
\* tax is positive and the schedule is not empty.
C8_Witness ==
  /\ Returned
  /\ Greater(args.recaptureAmt, ExpectedGain)
  /\ Greater(ret.inst.recaptureTax, Zero)
  /\ Len(ret.schedule) >= 1

\* C9: the tax rows are exactly one month-0 row followed by one row per
\* amortization row carrying that row's month, in schedule order; the
\* month-0 row has zero capital-gain and interest tax, and every row with
\* month > 0 has recaptureTax 0.
C9_TaxRowsShape ==
  Returned =>
    LET rows == ret.inst.rows
        s == ret.schedule
    IN  /\ Len(rows) = Len(s) + 1
        /\ rows[1].month = 0
        /\ rows[1].capGainTax = Zero /\ rows[1].interestTax = Zero
        /\ \A i \in 1..Len(s) : rows[i + 1].month = s[i].month /\ rows[i + 1].month > 0
        /\ \A i \in 1..Len(rows) : rows[i].month > 0 => rows[i].recaptureTax = Zero

\* C9 witness: a schedule ending in a balloon payoff pair with taxable gain
\* and recapture tax at month 0.
C9_Witness ==
  /\ Returned
  /\ Len(ret.schedule) >= 3 /\ Last(ret.schedule).isBalloon
  /\ Len(ret.inst.rows) = Len(ret.schedule) + 1
  /\ Greater(ret.inst.rows[1].recaptureTax, Zero)
  /\ Greater(ret.inst.rows[2].capGainTax, Zero)

----------------------------------------------------------------------------
(* Claims about npvMonthly (checked under SpecNpv) *)

\* the cash flows at month 0 (atZero) or after it (~atZero), in order
RECURSIVE FlowsAt(_, _)
FlowsAt(flows, atZero) ==
  IF flows = <<>> THEN <<>>
  ELSE (IF (flows[1].month = 0) = atZero THEN <<flows[1]>> ELSE <<>>)
       \o FlowsAt(Tail(flows), atZero)

\* C10: with discount rate 0 npvMonthly returns the plain sum of the
\* amounts, and at any discount rate the cash flows at month 0 contribute
\* their amounts undiscounted: the result is the sum of the month-0 amounts
\* plus the present value of the later cash flows.
C10_NpvUndiscounted ==
  Returned =>
    /\ (args.discountAnnualPct = Zero =>
          ret.npv = SumField(args.cashflows, "amount"))
    /\ ((\A i \in 1..Len(args.cashflows) : args.cashflows[i].month = 0) =>
          ret.npv = SumField(args.cashflows, "amount"))
    /\ ret.npv = Plus(SumField(FlowsAt(args.cashflows, TRUE), "amount"),
                      npvMonthly(FlowsAt(args.cashflows, FALSE),
                                 args.discountAnnualPct))

\* C10 witness: a positive discount rate, a month-0 cash flow and a later
\* one that is discounted.
C10_Witness ==
  /\ Returned
  /\ Greater(args.discountAnnualPct, Zero)
  /\ Len(args.cashflows) = 3
  /\ args.cashflows[1].month = 0 /\ args.cashflows[3].month = 2
  /\ ret.npv # SumField(args.cashflows, "amount")

\* C10 witness of the zero-rate case: later cash flows summed undiscounted.
C10_WitnessZeroRate ==
  /\ Returned /\ args.discountAnnualPct = Zero
  /\ Len(args.cashflows) = 3 /\ args.cashflows[3].month = 2
  /\ ret.npv = SumField(args.cashflows, "amount")

----------------------------------------------------------------------------
(* Claims about the share link (checked under SpecShare) *)

\* C14: encoding a DealInputs object with b64Encode and decoding the result
\* with b64Decode gives back an object with the same fields, in the same
\* order, each with the same value.
C14_ShareLinkRoundTrip ==
  pc = "return" /\ args.fn = "b64Encode" => ret.st = args.obj

\* a link was decoded whose brand name needs a JSON escape and a character
\* of more than one UTF-8 byte, with a fractional number among the fields
C14_Witness ==
  /\ pc = "return" /\ args.fn = "b64Encode"
  /\ ret.st.type = "object"
  /\ Len(ret.st.entries) = Len(StateKeys)
  /\ \E i \in 1..Len(ret.st.entries[1].value.str) :
       ret.st.entries[1].value.str[i] \in {34, 92}
  /\ \E i \in 1..Len(ret.st.entries[1].value.str) :
       ret.st.entries[1].value.str[i] > 127
  /\ \E i \in 1..Len(ret.st.entries) :
       ret.st.entries[i].value.type = "number" /\ ret.st.entries[i].value.num[2] > 1

----------------------------------------------------------------------------
(* Claims about the App component (checked under SpecApp) *)

\* C16: after any sequence of edits and loads, the derived result on
\* display is the result of the whole pipeline on the current inputs.
C16_DerivedIsCurrent ==
  status \in {"constructed", "mounted"} => derived = derivedCallback(inputs)

\* the hold-back period was edited after a state was loaded from a link,
\* and nothing else since
C16_Witness ==
  /\ status = "mounted"
  /\ search.present /\ inputs.brandName = <<90>>
  /\ inputs.holdbackYears = Num(1)
  /\ steps = 1

\* a form whose fields are all within their documented ranges
MoneyKeys == {"purchasePrice", "sellingCosts", "basis", "recaptureAmt", "balloon"}

PercentKeys ==
  {"ltcgRate", "stateGainRate", "recaptureRate", "ordinaryRate", "stateOrdRate",
   "holdbackPct", "investRatePct", "downPct", "ratePct", "discountRate"}

YearKeys == {"holdbackYears", "investYears", "termYears"}

InRange(st) ==
  /\ \A k \in MoneyKeys \cup YearKeys : IsFinite(st[k]) /\ LessEq(Zero, st[k])
  /\ \A k \in PercentKeys :
       IsFinite(st[k]) /\ LessEq(Zero, st[k]) /\ LessEq(st[k], Num(100))

\* C17: with discount rate 0 the all-cash NPV equals the all-cash headline
\* total sellerGetsAllCash, for every admissible input, whole or fractional
\* investment horizon alike.
C17_AllCashNpvIsHeadlineAtZeroRate ==
  status = "mounted" /\ InRange(inputs) /\ inputs.discountRate = Zero
    => derived.npvAllCash = derived.sellerGetsAllCash

\* C15: an export emits one data row per amortization row, in order, each
\* with the payment, interest, principal and balance of its own row (as
\* toFixed(2) prints them), the synthetic balloon row included.
C15_CsvRowsAreScheduleRows ==
  [][csv' # csv =>
       /\ Len(csv'.data) = Len(derived.schedule)
       /\ \A i \in 1..Len(csv'.data) :
            /\ csv'.data[i].month = derived.schedule[i].month
            /\ csv'.data[i].payment = toFixed2(derived.schedule[i].payment)
            /\ csv'.data[i].interest = toFixed2(derived.schedule[i].interest)
            /\ csv'.data[i].principal = toFixed2(derived.schedule[i].principal)
            /\ csv'.data[i].balance = toFixed2(derived.schedule[i].balance)]_vars

----------------------------------------------------------------------------
(* Claims about opening the App (checked under SpecOpen) *)

\* the query parameter holds no share link that parses
NoUsableLink == ~search.present \/ search.s \in BrokenLinks \cup {<<>>}

\* C11: when the share link or the stored item cannot be parsed, loading
\* it raises no exception to the caller and every input keeps its value.
C11_UnparsableStateIsIgnored ==
  status # "constructed" /\ steps = 0
    => /\ uncaught = "none"
       /\ status = "mounted"
       /\ (NoUsableLink => inputs = FirstInputs)

\* C12: in every state reached by number-field edits, scenario loads and
\* link loads, every monetary input is a non-negative number and every
\* percentage input lies between 0 and 100.
C12_InputsStayInRange ==
  status = "mounted"
    => /\ \A k \in MoneyKeys : IsFinite(inputs[k]) /\ LessEq(Zero, inputs[k])
       /\ \A k \in PercentKeys :
            IsFinite(inputs[k]) /\ LessEq(Zero, inputs[k]) /\ LessEq(inputs[k], Num(100))

----------------------------------------------------------------------------
(* Claims about the scenario store (checked under SpecStore) *)

\* handleSave went through: only it empties a filled Save Name field
SaveStep == scenarioName # <<>> /\ scenarioName' = <<>>

\* a scenario was deleted: only the Delete button removes an entry
DeleteStep == \E n \in DOMAIN storage.all : n \notin DOMAIN storage'.all

\* C13: the store holds, for each name, exactly the snapshot of the most
\* recent save under that name not followed by a delete of it, and nothing
\* under any other name.  Step by step: a save under a name puts the
\* current snapshot under that name and leaves every other entry as it
\* was; a delete removes one entry and leaves the others as they were;
\* nothing else changes the store.
C13_StoreFollowsSavesAndDeletes ==
  [][/\ SaveStep =>
          LET n == trim(scenarioName)
          IN  /\ DOMAIN storage'.all = DOMAIN storage.all \cup {n}
              /\ storage'.all[n].state = currentState(inputs)
              /\ \A m \in DOMAIN storage.all \ {n} : storage'.all[m] = storage.all[m]
     /\ DeleteStep =>
          \E n \in DOMAIN storage.all :
            /\ DOMAIN storage'.all = DOMAIN storage.all \ {n}
            /\ \A m \in DOMAIN storage'.all : storage'.all[m] = storage.all[m]
     /\ ~SaveStep /\ ~DeleteStep => storage'.all = storage.all]_vars

====
